---- MODULE Spec2Model ----
(***************************************************************************)
(* Model of the chat relay (Go handlers that forward a conversation to     *)
(* the Gemini generateContent endpoint) and of the browser client that     *)
(* talks to it.                                                            *)
(*                                                                         *)
(*   Spec        one inbound request handled by Handler/callGemini, under  *)
(*               either of the two callGemini variants (policy)            *)
(*   FairSpec    Spec plus weak fairness of the handler's own steps; the   *)
(*               provider is the environment and has no fairness           *)
(*   NormSpec    the two turn-conversion loops applied to bounded inputs   *)
(*   ClientSpec  App.js: submissions and completions of fetch calls        *)
(***************************************************************************)
EXTENDS Integers, Sequences, FiniteSets, TLC

\* ---------------------------------------------------------------- bounds
MaxReqTurns == 3
MaxTurns == 5
MaxCands == 2
MaxParts == 2
MaxSubmits == 3

\* ------------------------------------------------------- program constants
StatusOK == 200
StatusBadRequest == 400
StatusInternalServerError == 500

SeqsUpTo(S, n) == UNION {[1..k -> S] : k \in 0..n}

Max(a, b) == IF a > b THEN a ELSE b

\* ------------------------------------------------------------ input sets
Senders == {"user", "bot", "system"}
Texts == {"", "hi"}
ChatMessage == [sender : Senders, text : Texts]

ReplyTexts == {"", "hello"}
ErrorBodies == {"", "{\"error\":\"rate limited\"}"}
ErrorStatuses == {429, 500}

Policies == {"passthrough", "primed"}

\* ------------------------------------------------- conversation conversion
\* callGemini, pass-through variant: one content per message, in order.
PassThroughContent(msg) ==
    [role |-> IF msg.sender = "user" THEN "user" ELSE "model",
     text |-> msg.text]

NormalizePassThrough(messages) ==
    [i \in 1..Len(messages) |-> PassThroughContent(messages[i])]

\* callGemini, primed variant: two fixed turns, then messages[2:].
systemInstruction ==
    [role |-> "user",
     text |-> "You are a helpful, general-purpose chatbot. Please continue the conversation. If you are asked for a recipe, provide it."]

modelHello ==
    [role |-> "model",
     text |-> "Hello! I'm ready to chat. How can I help you?"]

historyNoSkip(messages) == messages

history(messages) ==
    IF Len(messages) > 2 THEN SubSeq(messages, 3, Len(messages)) ELSE <<>>

PrimedContent(msg) ==
    [role |-> IF msg.sender = "user" THEN "user" ELSE "model",
     text |-> msg.text]

NormalizePrimed(messages) ==
    <<systemInstruction, modelHello>> \o
    [i \in 1..Len(history(messages)) |-> PrimedContent(history(messages)[i])]

Normalize(p, messages) ==
    IF p = "primed" THEN NormalizePrimed(messages)
    ELSE NormalizePassThrough(messages)

\* --------------------------------------------------------- error values
NoErr == [kind |-> "nil", status |-> 0, body |-> ""]
ErrKeyNotSet == [kind |-> "GEMINI_API_KEY env var is NOT SET", status |-> 0, body |-> ""]
ErrRequestDecode == [kind |-> "request decode error", status |-> 0, body |-> ""]
ErrTransport == [kind |-> "transport error", status |-> 0, body |-> ""]
ErrResponseDecode == [kind |-> "response decode error", status |-> 0, body |-> ""]

\* fmt.Errorf("gemini API error (%d): %s", resp.StatusCode, string(bodyBytes))
GeminiAPIErrorNoBody(status, body) ==
    [kind |-> "gemini API error", status |-> status, body |-> ""]

GeminiAPIError(status, body) ==
    [kind |-> "gemini API error", status |-> status, body |-> body]

Fallback == "I'm sorry, I couldn't process that response."

\* ------------------------------------------------------ provider answers
NoAnswer ==
    [kind |-> "none", status |-> 0, body |-> "", parses |-> FALSE,
     candidates |-> <<>>]

PartSeqs == SeqsUpTo(ReplyTexts, MaxParts)
CandidateSeqs == SeqsUpTo(PartSeqs, MaxCands)

ProviderAnswers ==
    {[kind |-> "transport", status |-> 0, body |-> "", parses |-> FALSE,
      candidates |-> <<>>]}
    \cup {[kind |-> "response", status |-> s, body |-> b, parses |-> FALSE,
           candidates |-> <<>>] : s \in ErrorStatuses, b \in ErrorBodies}
    \cup {[kind |-> "response", status |-> StatusOK, body |-> "", parses |-> FALSE,
           candidates |-> <<>>]}
    \cup {[kind |-> "response", status |-> StatusOK, body |-> "", parses |-> TRUE,
           candidates |-> c] : c \in CandidateSeqs}

\* ------------------------------------------------- response classification
\* Candidates[0].Content.Parts[0].Text, or the fixed fallback string.
ExtractReplyLast(candidates) ==
    IF Len(candidates) > 0 /\ Len(candidates[Len(candidates)]) > 0
    THEN candidates[Len(candidates)][Len(candidates[Len(candidates)])]
    ELSE Fallback

ExtractReply(candidates) ==
    IF Len(candidates) > 0 /\ Len(candidates[1]) > 0
    THEN candidates[1][1]
    ELSE Fallback

\* callGemini after client.Do returned: (reply, err)
ClassifyResponse(p) ==
    IF p.kind = "transport"
    THEN [reply |-> "", err |-> ErrTransport]
    ELSE IF p.status # StatusOK
    THEN [reply |-> "", err |-> GeminiAPIError(p.status, p.body)]
    ELSE IF ~p.parses
    THEN [reply |-> "", err |-> ErrResponseDecode]
    ELSE [reply |-> ExtractReply(p.candidates), err |-> NoErr]

\* ------------------------------------------------- responses to the caller
NoResponse ==
    [written |-> FALSE, status |-> 0, ctype |-> "", hasReply |-> FALSE,
     reply |-> "", err |-> NoErr]

\* w.WriteHeader(http.StatusOK) with no body
PreflightResponse ==
    [written |-> TRUE, status |-> StatusOK, ctype |-> "", hasReply |-> FALSE,
     reply |-> "", err |-> NoErr]

\* http.Error(w, msg, code): plain-text body
HttpError(err, code) ==
    [written |-> TRUE, status |-> code, ctype |-> "text/plain; charset=utf-8",
     hasReply |-> FALSE, reply |-> "", err |-> err]

\* json.NewEncoder(w).Encode(ChatResponse{Reply: aiReply})
JsonReply(aiReply) ==
    [written |-> TRUE, status |-> StatusOK, ctype |-> "application/json",
     hasReply |-> TRUE, reply |-> aiReply, err |-> NoErr]

VARIABLES
    policy,      \* which callGemini variant is deployed
    request,     \* the inbound request: method, wellFormed, messages
    geminiKey,   \* os.Getenv("GEMINI_API_KEY")
    pc,          \* position of the handler
    req,         \* req.Messages after decoding
    outbound,    \* contents of every outbound call started for this request
    provider,    \* what client.Do produced
    result,      \* (aiReply, err) returned by callGemini
    response,    \* what the handler wrote to the caller
    steps,       \* the handler steps taken so far, in order
    nIn, nPolicy, nOut, nDone,                 \* NormSpec
    messages, input, isLoading, inflight,      \* ClientSpec
    nextId, submitted, settled

relayVars == <<policy, request, geminiKey, pc, req, outbound, provider,
               result, response, steps>>
normVars == <<nIn, nPolicy, nOut, nDone>>
clientVars == <<messages, input, isLoading, inflight, nextId, submitted,
                settled>>
vars == <<relayVars, normVars, clientVars>>

\* ------------------------------------------------------------ the relay
Requests ==
    {[method |-> "OPTIONS", wellFormed |-> TRUE, messages |-> <<>>],
     [method |-> "POST", wellFormed |-> FALSE, messages |-> <<>>]}
    \cup {[method |-> "POST", wellFormed |-> TRUE, messages |-> m] :
            m \in SeqsUpTo(ChatMessage, MaxReqTurns)}

Arrive(p, r, k) ==
    /\ policy = p
    /\ request = r
    /\ geminiKey = k
    /\ pc = "start"
    /\ req = <<>>
    /\ outbound = <<>>
    /\ provider = NoAnswer
    /\ result = [reply |-> "", err |-> NoErr]
    /\ response = NoResponse
    /\ steps = <<>>

RelayIdle == Arrive("passthrough", [method |-> "OPTIONS", wellFormed |-> TRUE, messages |-> <<>>], "")

NormIdle ==
    /\ nIn = <<>>
    /\ nPolicy = "passthrough"
    /\ nOut = <<>>
    /\ nDone = FALSE

ClientIdle ==
    /\ messages = <<>>
    /\ input = ""
    /\ isLoading = FALSE
    /\ inflight = {}
    /\ nextId = 1
    /\ submitted = 0
    /\ settled = 0

Init ==
    /\ \E p \in Policies, r \in Requests, k \in {"", "key"} : Arrive(p, r, k)
    /\ NormIdle
    /\ ClientIdle

\* Handler: CORS headers, OPTIONS preflight
Preflight ==
    /\ pc = "start"
    /\ steps' = Append(steps, "preflight")
    /\ IF request.method = "OPTIONS"
       THEN response' = PreflightResponse /\ pc' = "done"
       ELSE response' = response /\ pc' = "getKey"
    /\ UNCHANGED <<policy, request, geminiKey, req, outbound, provider, result>>

\* Handler: credential check (mutant: the early return is missing)
GetKeyNoReturn ==
    /\ pc = "getKey"
    /\ steps' = Append(steps, "getKey")
    /\ IF geminiKey = ""
       THEN response' = HttpError(ErrKeyNotSet, StatusInternalServerError) /\ pc' = "decode"
       ELSE response' = response /\ pc' = "decode"
    /\ UNCHANGED <<policy, request, geminiKey, req, outbound, provider, result>>

GetKey ==
    /\ pc = "getKey"
    /\ steps' = Append(steps, "getKey")
    /\ IF geminiKey = ""
       THEN response' = HttpError(ErrKeyNotSet, StatusInternalServerError) /\ pc' = "done"
       ELSE response' = response /\ pc' = "decode"
    /\ UNCHANGED <<policy, request, geminiKey, req, outbound, provider, result>>

\* Handler: json.NewDecoder(r.Body).Decode(&req)
DecodeRequest ==
    /\ pc = "decode"
    /\ steps' = Append(steps, "decode")
    /\ IF ~request.wellFormed
       THEN /\ response' = HttpError(ErrRequestDecode, StatusBadRequest)
            /\ pc' = "done"
            /\ req' = req
       ELSE /\ response' = response
            /\ pc' = "call"
            /\ req' = request.messages
    /\ UNCHANGED <<policy, request, geminiKey, outbound, provider, result>>

\* callGemini up to client.Do(req): build the contents and start the call
CallGemini ==
    /\ pc = "call"
    /\ steps' = Append(steps, "call")
    /\ outbound' = Append(outbound, Normalize(policy, req))
    /\ pc' = "waiting"
    /\ UNCHANGED <<policy, request, geminiKey, req, provider, result, response>>

\* the provider (or the network) ends the pending call
ProviderAnswer ==
    /\ pc = "waiting"
    /\ \E a \in ProviderAnswers : provider' = a
    /\ pc' = "classify"
    /\ UNCHANGED <<policy, request, geminiKey, req, outbound, result, response, steps>>

\* callGemini after client.Do(req) returned
Classify ==
    /\ pc = "classify"
    /\ steps' = Append(steps, "classify")
    /\ result' = ClassifyResponse(provider)
    /\ pc' = "respond"
    /\ UNCHANGED <<policy, request, geminiKey, req, outbound, provider, response>>

\* Handler after callGemini returned
Respond ==
    /\ pc = "respond"
    /\ steps' = Append(steps, "respond")
    /\ response' = IF result.err # NoErr
                   THEN HttpError(result.err, StatusInternalServerError)
                   ELSE JsonReply(result.reply)
    /\ pc' = "done"
    /\ UNCHANGED <<policy, request, geminiKey, req, outbound, provider, result>>

HandlerStep ==
    \/ Preflight
    \/ GetKey
    \/ DecodeRequest
    \/ CallGemini
    \/ Classify
    \/ Respond

Next ==
    \/ Preflight /\ UNCHANGED <<normVars, clientVars>>
    \/ GetKey /\ UNCHANGED <<normVars, clientVars>>
    \/ DecodeRequest /\ UNCHANGED <<normVars, clientVars>>
    \/ CallGemini /\ UNCHANGED <<normVars, clientVars>>
    \/ ProviderAnswer /\ UNCHANGED <<normVars, clientVars>>
    \/ Classify /\ UNCHANGED <<normVars, clientVars>>
    \/ Respond /\ UNCHANGED <<normVars, clientVars>>

Spec == Init /\ [][Next]_vars

FairSpec == Spec /\ WF_vars(HandlerStep /\ UNCHANGED <<normVars, clientVars>>)

\* ------------------------------------------------- the conversion, alone
NormInit ==
    /\ RelayIdle
    /\ ClientIdle
    /\ nIn \in SeqsUpTo(ChatMessage, MaxTurns)
    /\ nPolicy \in Policies
    /\ nOut = <<>>
    /\ nDone = FALSE

ApplyPassThrough ==
    /\ ~nDone
    /\ nPolicy = "passthrough"
    /\ nOut' = NormalizePassThrough(nIn)
    /\ nDone' = TRUE
    /\ UNCHANGED <<nIn, nPolicy>>

ApplyPrimed ==
    /\ ~nDone
    /\ nPolicy = "primed"
    /\ nOut' = NormalizePrimed(nIn)
    /\ nDone' = TRUE
    /\ UNCHANGED <<nIn, nPolicy>>

NormNext ==
    \/ ApplyPassThrough /\ UNCHANGED <<relayVars, clientVars>>
    \/ ApplyPrimed /\ UNCHANGED <<relayVars, clientVars>>

NormSpec == NormInit /\ [][NormNext]_vars

\* ------------------------------------------------------ the browser client
InputTexts == {"", " ", "hi", " yo "}

\* String.prototype.trim on the inputs above
Trim(s) == CASE s = " " -> "" [] s = " yo " -> "yo" [] OTHER -> s

FetchErrors == {"Failed to get a response from the bot.", "Failed to fetch"}

ClientInit ==
    /\ RelayIdle
    /\ NormIdle
    /\ ClientIdle

\* onChange={(e) => setInput(e.target.value)}
Type ==
    /\ \E t \in InputTexts : t # input /\ input' = t
    /\ UNCHANGED <<messages, isLoading, inflight, nextId, submitted, settled>>

\* handleSubmit up to the await of fetch
Submit ==
    /\ Trim(input) # ""
    /\ submitted < MaxSubmits
    /\ LET userMessage == [sender |-> "user", text |-> input]
           newMessages == Append(messages, userMessage)
       IN /\ messages' = newMessages
          /\ inflight' = inflight \cup {[id |-> nextId, body |-> newMessages]}
    /\ input' = ""
    /\ isLoading' = TRUE
    /\ nextId' = nextId + 1
    /\ submitted' = submitted + 1
    /\ UNCHANGED settled

\* handleSubmit after the awaits: response.ok and a JSON body
FetchOk ==
    /\ \E r \in inflight, reply \in ReplyTexts \cup {Fallback} :
          /\ messages' = Append(messages, [sender |-> "bot", text |-> reply])
          /\ inflight' = inflight \ {r}
    /\ isLoading' = FALSE
    /\ settled' = settled + 1
    /\ UNCHANGED <<input, nextId, submitted>>

\* handleSubmit after the awaits: the catch branch
FetchFail ==
    /\ \E r \in inflight, e \in FetchErrors :
          /\ messages' = Append(messages, [sender |-> "bot", text |-> e])
          /\ inflight' = inflight \ {r}
    /\ isLoading' = FALSE
    /\ settled' = settled + 1
    /\ UNCHANGED <<input, nextId, submitted>>

ClientNext ==
    \/ Type /\ UNCHANGED <<relayVars, normVars>>
    \/ Submit /\ UNCHANGED <<relayVars, normVars>>
    \/ FetchOk /\ UNCHANGED <<relayVars, normVars>>
    \/ FetchFail /\ UNCHANGED <<relayVars, normVars>>

ClientSpec == ClientInit /\ [][ClientNext]_vars

\* ------------------------------------------------------------ properties
Last(q) == q[Len(q)]

IndexOf(q, x) == CHOOSE i \in 1..Len(q) : q[i] = x

BadShape(contents) == contents = <<>> \/ Last(contents).role # "user"

\* C1: a request whose converted contents are empty, or do not end with a
\* user-role element, is answered with a client-error status and no outbound
\* call is started for it.
C1_ShapeErrorRejected ==
    (/\ request.method = "POST"
     /\ geminiKey # ""
     /\ request.wellFormed
     /\ BadShape(Normalize(policy, request.messages)))
    => /\ outbound = <<>>
       /\ pc = "done" => response.status = StatusBadRequest

C3_ReplyExtraction ==
    (/\ pc \in {"respond", "done"}
     /\ provider.kind = "response"
     /\ provider.status = StatusOK
     /\ provider.parses)
    => /\ result.err = NoErr
       /\ \/ /\ provider.candidates # <<>>
             /\ provider.candidates[1] # <<>>
             /\ result.reply = provider.candidates[1][1]
          \/ /\ provider.candidates = <<>> \/ provider.candidates[1] = <<>>
             /\ result.reply = "I'm sorry, I couldn't process that response."
       /\ pc = "done" => response.hasReply /\ response.reply = result.reply

C3_Witness ==
    /\ pc = "done"
    /\ Len(provider.candidates) = 2
    /\ Len(provider.candidates[1]) = 2
    /\ provider.candidates[1][1] = "hello"
    /\ provider.candidates[1][2] = ""
    /\ provider.candidates[2] = <<"">>
    /\ response.reply = "hello"

\* C4: one handling starts at most one outbound call; none for an OPTIONS
\* preflight, a missing API key or an undecodable body; and the call comes
\* after the credential check and the body decode.
C4_AtMostOneCall ==
    /\ Len(outbound) <= 1
    /\ Len(SelectSeq(steps, LAMBDA x : x = "call")) = Len(outbound)
    /\ (request.method = "OPTIONS" \/ geminiKey = "" \/ ~request.wellFormed)
           => outbound = <<>>
    /\ outbound # <<>> =>
           /\ \E i \in 1..Len(steps) : steps[i] = "getKey"
           /\ \E i \in 1..Len(steps) : steps[i] = "decode"
           /\ IndexOf(steps, "getKey") < IndexOf(steps, "call")
           /\ IndexOf(steps, "decode") < IndexOf(steps, "call")

C4_Witness ==
    /\ pc = "done"
    /\ provider.kind = "transport"
    /\ Len(outbound) = 1
    /\ response.status = StatusInternalServerError

\* C5: the outbound call is bounded by a deadline, so a handling that is
\* waiting for the provider always finishes with a response to the caller,
\* whether or not the provider ever answers.
C5_HungProviderStillFinishes ==
    (pc = "waiting") ~> (pc = "done" /\ response.written)

\* C6: every response to a non-preflight request has a JSON body, either a
\* reply or a structured error, never plain text.
C6_AlwaysJson ==
    (pc = "done" /\ request.method # "OPTIONS")
    => response.ctype = "application/json"

DropEmpty(turns) == SelectSeq(turns, LAMBDA m : m.text # "")

MappedRoles(turns) ==
    [i \in 1..Len(turns) |->
        [role |-> IF turns[i].sender = "user" THEN "user" ELSE "model",
         text |-> turns[i].text]]

\* C7: pass-through conversion of a non-empty turn list ending in a user
\* turn gives the turns in order with the empty-text turns dropped and the
\* roles mapped; the last role is user.
C7_PassThroughDropsEmpty ==
    (/\ nDone
     /\ nPolicy = "passthrough"
     /\ nIn # <<>>
     /\ Last(nIn).sender = "user")
    => /\ nOut = MappedRoles(DropEmpty(nIn))
       /\ Len(nOut) = Len(nIn) - Cardinality({i \in 1..Len(nIn) : nIn[i].text = ""})
       /\ nOut # <<>>
       /\ Last(nOut).role = "user"

\* C8: primed conversion with legacy skip gives the two fixed turns followed
\* by the caller's turns from the third onward, in order, with mapped roles;
\* the length is 2 + max(n - 2, 0) for every n, zero included.
C8_PrimedLegacySkip ==
    (nDone /\ nPolicy = "primed")
    => /\ Len(nOut) = 2 + Max(Len(nIn) - 2, 0)
       /\ nOut[1].role = "user"
       /\ nOut[1].text = "You are a helpful, general-purpose chatbot. Please continue the conversation. If you are asked for a recipe, provide it."
       /\ nOut[2].role = "model"
       /\ nOut[2].text = "Hello! I'm ready to chat. How can I help you?"
       /\ \A i \in 3..Len(nIn) :
             /\ i <= Len(nOut)
             /\ nOut[i].text = nIn[i].text
             /\ nOut[i].role = "user" <=> nIn[i].sender = "user"
             /\ nOut[i].role = "model" <=> nIn[i].sender # "user"

C8_Witness ==
    /\ nDone
    /\ nPolicy = "primed"
    /\ Len(nIn) = 5
    /\ Len(nOut) = 5
    /\ nIn[3] = [sender |-> "user", text |-> "hi"]
    /\ nIn[4] = [sender |-> "system", text |-> ""]
    /\ nOut[3] = [role |-> "user", text |-> "hi"]
    /\ nOut[4] = [role |-> "model", text |-> ""]

\* C9: every request of the browser client, converted by the primed handler,
\* ends with the user message that triggered the request.
C9_LatestUserTurnForwarded ==
    \A r \in inflight :
        Last(NormalizePrimed(r.body)) =
            [role |-> "user", text |-> Last(r.body).text]

CountSender(q, who) == Cardinality({i \in 1..Len(q) : q[i].sender = who})

\* C10: isLoading is true whenever a request is in flight, and every
\* submitted user message and every reply or error message is in the
\* message list exactly once.
C10_LoadingWhileInFlight ==
    /\ inflight # {} => isLoading
    /\ CountSender(messages, "user") = submitted
    /\ CountSender(messages, "bot") = settled

====
